---- MODULE Spec2Model ----
(***************************************************************************)
(* A model of ripple::ServerHandlerImp (ServerHandlerImp.cpp): the         *)
(* per-port connection accounting of onAccept/onClose, the Basic-auth      *)
(* check `authorized`, and the JSON-RPC request pipeline of                *)
(* onRequest / processSession / processRequest.                            *)
(***************************************************************************)
EXTENDS Integers, Sequences, FiniteSets, TLC

(***************************************************************************)
(* Bounds of the model.                                                    *)
(***************************************************************************)
NumSessions == 2    \* session objects alive at the same time
NumPorts == 2       \* configured ports
MaxLimit == 2       \* largest Port::limit drawn at construction
MaxConfigPorts == 3 \* most sections named by [server]

Sessions == 1 .. NumSessions
Ports == 1 .. NumPorts
None == 0 - 1           \* no session, no port

VARIABLES
    \* ---- connection admission (onAccept / onClose) ----
    limit,       \* limit[p]: Port::limit of port p (0 = unlimited)
    count,       \* count_[p]: the handler's per-port counter
    countlock,   \* holder of countlock_ (a session), or None
    spc,         \* spc[s]: where session s is in onAccept / onClose
    sport,       \* sport[s]: session.port()
    reg,         \* reg[s]: the value loaded by ++ / -- before the store
    before,      \* before[s]: count_[port] when the call took the lock
    c,           \* c[s]: the local `c` of onAccept
    net,         \* net[p]: onAccept calls made on p minus onClose calls made on p
    last,        \* last[p]: the last onAccept that returned on p (before, c, ret)
    stage        \* stage[p]: place of p in the run "accepts from empty, one close,
                 \*           one accept"; Void once the run is broken

connVars == <<limit, count, countlock, spc, sport, reg, before, c, net, last, stage>>

VARIABLES
    \* ---- authorized (port, headers) ----
    aPort,       \* the Port's user and password
    aHdr,        \* the "authorization" entry of the header map
    aDone,       \* authorized has returned
    aResult      \* what it returned

authVars == <<aPort, aHdr, aDone, aResult>>

VARIABLES
    \* ---- one session's request: onRequest, processSession, processRequest ----
    rq,            \* the session: its port and the request it carries
    rpc,           \* where the request is in the pipeline
    role,          \* the local `role` of processRequest
    hint,          \* the params object handed to requestRole
    forwardedFor,  \* the local `forwardedFor`
    user,          \* the local `user`
    usage,         \* the Resource::Consumer obtained, or NoUsage
    strMethod,     \* the local `strMethod`
    params,        \* the local `params`
    context,       \* the RPC::Context handed to doCommand, or NoContext
    result,        \* the local `result`
    response,      \* the local `response`
    trace,         \* what the handler did for this request, in order
    by,            \* for each entry of the trace, the context that made it
    runner,        \* the context that runs the posted job, "none" before
    \* the handoff decision
    hs,            \* "idle", "called" (onHandoff is running) or "returned"
    hin,           \* what onHandoff was called with
    hout,          \* the Handoff it returned
    hov,           \* the call it made to app_.overlay().onHandoff, if any
    \* the construction of the Setup
    sst,           \* "idle" or "returned" (setup_ServerHandler has run)
    config,        \* the Config it was given
    setup          \* what it returned or threw, and what it logged

reqVars == <<rq, rpc, role, hint, forwardedFor, user, usage, strMethod, params,
             context, result, response, trace, by, runner>>

handoffVars == <<hs, hin, hout, hov>>

setupVars == <<sst, config, setup>>

vars == <<connVars, authVars, reqVars, handoffVars, setupVars>>

\* What the actions of one part leave alone.
notConnVars == <<authVars, reqVars, handoffVars, setupVars>>
notAuthVars == <<connVars, reqVars, handoffVars, setupVars>>
notReqVars == <<connVars, authVars, handoffVars, setupVars>>
notHandoffVars == <<connVars, authVars, reqVars, setupVars>>
notSetupVars == <<connVars, authVars, reqVars, handoffVars>>

(***************************************************************************)
(* Connection admission controller.                                        *)
(***************************************************************************)

\* std::lock_guard<std::mutex> l(countlock_): blocks until the mutex is free.
CanLockUnguarded(s) == TRUE
CanLock(s) == countlock = None

\* The refusal test of onAccept, on the post-increment value c.
AcceptResultStrict(lim, cv) == ~(lim # 0 /\ cv > lim)
AcceptResult(lim, cv) == ~(lim # 0 /\ cv >= lim)

\* ++count_[port] and --count_[port]: the value stored from the value loaded.
Incremented(v) == v + 1
DecrementedTwice(v) == v - 2
Decremented(v) == v - 1

\* The run of calls on one port, counted from a moment the port's counter was 0:
\* stage k \in 1 .. lim+1 after k onAccept calls and no onClose, lim+2 after one
\* onClose following them, lim+3 after one more onAccept.
Void == 0 - 1
StageAfterAccept(lim, st) ==
    IF st # Void /\ (st <= lim \/ st = lim + 2) THEN st + 1 ELSE Void
StageAfterClose(lim, st, cnt) ==
    IF cnt = 0 THEN 0 ELSE IF st = lim + 1 THEN lim + 2 ELSE Void

NoCall == [before |-> 0, c |-> 0, ret |-> TRUE, made |-> FALSE]

InitConnVars ==
    /\ limit \in [Ports -> 0 .. MaxLimit]
    /\ count = [p \in Ports |-> 0]
    /\ countlock = None
    /\ spc = [s \in Sessions |-> "new"]
    /\ sport = [s \in Sessions |-> None]
    /\ reg = [s \in Sessions |-> 0]
    /\ before = [s \in Sessions |-> 0]
    /\ c = [s \in Sessions |-> 0]
    /\ net = [p \in Ports |-> 0]
    /\ last = [p \in Ports |-> NoCall]
    /\ stage = [p \in Ports |-> 0]

\* onAccept is entered for a new session on port p and takes countlock_.
onAccept_lock(s, p) ==
    /\ spc[s] = "new"
    /\ CanLock(s)
    /\ countlock' = s
    /\ sport' = [sport EXCEPT ![s] = p]
    /\ before' = [before EXCEPT ![s] = count[p]]
    /\ net' = [net EXCEPT ![p] = @ + 1]
    /\ spc' = [spc EXCEPT ![s] = "a_load"]
    /\ UNCHANGED <<limit, count, reg, c, last, stage>>
    /\ UNCHANGED notConnVars

\* ++count_[session.port()]: the load ...
onAccept_load(s) ==
    /\ spc[s] = "a_load"
    /\ reg' = [reg EXCEPT ![s] = count[sport[s]]]
    /\ spc' = [spc EXCEPT ![s] = "a_store"]
    /\ UNCHANGED <<limit, count, countlock, sport, before, c, net, last, stage>>
    /\ UNCHANGED notConnVars

\* ... and the store; c is the value stored.
onAccept_store(s) ==
    /\ spc[s] = "a_store"
    /\ count' = [count EXCEPT ![sport[s]] = Incremented(reg[s])]
    /\ c' = [c EXCEPT ![s] = Incremented(reg[s])]
    /\ spc' = [spc EXCEPT ![s] = "a_ret"]
    /\ UNCHANGED <<limit, countlock, sport, reg, before, net, last, stage>>
    /\ UNCHANGED notConnVars

\* The limit test and the return, which releases the lock_guard and ends the
\* locals.
onAccept_return(s) ==
    /\ spc[s] = "a_ret"
    /\ LET p == sport[s]
           r == AcceptResult(limit[p], c[s]) IN
        /\ last' = [last EXCEPT ![p] =
                        [before |-> before[s], c |-> c[s], ret |-> r, made |-> TRUE]]
        /\ stage' = [stage EXCEPT ![p] = StageAfterAccept(limit[p], @)]
    /\ countlock' = IF countlock = s THEN None ELSE countlock
    /\ spc' = [spc EXCEPT ![s] = "open"]
    /\ reg' = [reg EXCEPT ![s] = 0]
    /\ before' = [before EXCEPT ![s] = 0]
    /\ c' = [c EXCEPT ![s] = 0]
    /\ UNCHANGED <<limit, count, sport, net>>
    /\ UNCHANGED notConnVars

\* onClose is entered for a session whose onAccept has returned, and takes
\* countlock_.
onClose_lock(s) ==
    /\ spc[s] = "open"
    /\ CanLock(s)
    /\ countlock' = s
    /\ net' = [net EXCEPT ![sport[s]] = @ - 1]
    /\ spc' = [spc EXCEPT ![s] = "c_load"]
    /\ UNCHANGED <<limit, count, sport, reg, before, c, last, stage>>
    /\ UNCHANGED notConnVars

\* --count_[session.port()]: the load ...
onClose_load(s) ==
    /\ spc[s] = "c_load"
    /\ reg' = [reg EXCEPT ![s] = count[sport[s]]]
    /\ spc' = [spc EXCEPT ![s] = "c_store"]
    /\ UNCHANGED <<limit, count, countlock, sport, before, c, net, last, stage>>
    /\ UNCHANGED notConnVars

\* ... and the store, after which onClose returns and the session is gone.
onClose_store(s) ==
    /\ spc[s] = "c_store"
    /\ LET p == sport[s]
           v == Decremented(reg[s]) IN
        /\ count' = [count EXCEPT ![p] = v]
        /\ stage' = [stage EXCEPT ![p] = StageAfterClose(limit[p], @, v)]
    /\ countlock' = IF countlock = s THEN None ELSE countlock
    /\ spc' = [spc EXCEPT ![s] = "new"]
    /\ sport' = [sport EXCEPT ![s] = None]
    /\ reg' = [reg EXCEPT ![s] = 0]
    /\ UNCHANGED <<limit, before, c, net, last>>
    /\ UNCHANGED notConnVars

NextConn ==
    \E s \in Sessions :
        \/ \E p \in Ports : onAccept_lock(s, p)
        \/ onAccept_load(s)
        \/ onAccept_store(s)
        \/ onAccept_return(s)
        \/ onClose_lock(s)
        \/ onClose_load(s)
        \/ onClose_store(s)

(***************************************************************************)
(* authorized (port, headers): HTTP Basic authentication.                  *)
(* std::string is a sequence of character codes.                           *)
(***************************************************************************)

\* std::string::substr (pos, n) and substr (pos), pos counted from 0.
substr(str, pos, n) ==
    SubSeq(str, pos + 1, IF pos + n < Len(str) THEN pos + n ELSE Len(str))
substrFrom(str, pos) == SubSeq(str, pos + 1, Len(str))

\* std::string::find (":"): the 0-based place of the first colon, or npos.
npos == 0 - 1
RECURSIVE findFrom(_, _, _)
findFrom(str, ch, i) ==
    IF i > Len(str) THEN npos
    ELSE IF str[i] = ch THEN i - 1
    ELSE findFrom(str, ch, i + 1)
find(str, ch) == findFrom(str, ch, 1)

\* boost::trim: drops the white space at both ends.
IsSpace(ch) == ch \in {32, 9, 10, 11, 12, 13}
RECURSIVE trimLeft(_)
trimLeft(str) ==
    IF str # <<>> /\ IsSpace(Head(str)) THEN trimLeft(Tail(str)) ELSE str
RECURSIVE trimRight(_)
trimRight(str) ==
    IF str # <<>> /\ IsSpace(str[Len(str)])
    THEN trimRight(SubSeq(str, 1, Len(str) - 1)) ELSE str
trim(str) == trimRight(trimLeft(str))

\* beast::base64_decode: the characters up to the first one outside the
\* base64 alphabet ('=' included), four 6-bit digits making three bytes; a last
\* group of k digits makes k-1 bytes.
is_base64(ch) ==
    \/ ch \in 65 .. 90 \/ ch \in 97 .. 122 \/ ch \in 48 .. 57
    \/ ch = 43 \/ ch = 47
base64_digit(ch) ==
    IF ch \in 65 .. 90 THEN ch - 65
    ELSE IF ch \in 97 .. 122 THEN ch - 97 + 26
    ELSE IF ch \in 48 .. 57 THEN ch - 48 + 52
    ELSE IF ch = 43 THEN 62 ELSE 63
RECURSIVE base64_digits(_)
base64_digits(str) ==
    IF str = <<>> \/ ~is_base64(Head(str)) THEN <<>>
    ELSE <<base64_digit(Head(str))>> \o base64_digits(Tail(str))
base64_bytes(d) ==
    << (d[1] * 4 + d[2] \div 16) % 256,
       ((d[2] % 16) * 16 + d[3] \div 4) % 256,
       ((d[3] % 4) * 64 + d[4]) % 256 >>
RECURSIVE base64_groups(_)
base64_groups(d) ==
    IF d = <<>> THEN <<>>
    ELSE IF Len(d) >= 4
    THEN base64_bytes(d) \o base64_groups(SubSeq(d, 5, Len(d)))
    ELSE SubSeq(base64_bytes(d \o [i \in 1 .. 4 - Len(d) |-> 0]), 1, Len(d) - 1)
base64_decode(str) == base64_groups(base64_digits(str))

\* "Basic " and ":".
BasicPrefix == <<66, 97, 115, 105, 99, 32>>
ColonChar == <<58>>

\* The final comparison without the password.
authorizedUserOnly(port, h) ==
    IF port.user = <<>> \/ port.password = <<>> THEN TRUE
    ELSE IF ~h.present \/ substr(h.value, 0, 6) # BasicPrefix THEN FALSE
    ELSE LET strUserPass == base64_decode(trim(substrFrom(h.value, 6)))
             nColon == find(strUserPass, ColonChar[1])
         IN  IF nColon = npos THEN FALSE
             ELSE substr(strUserPass, 0, nColon) = port.user

authorized(port, h) ==
    IF port.user = <<>> \/ port.password = <<>> THEN TRUE
    ELSE IF ~h.present \/ substr(h.value, 0, 6) # BasicPrefix THEN FALSE
    ELSE LET strUserPass64 == trim(substrFrom(h.value, 6))
             strUserPass == base64_decode(strUserPass64)
             nColon == find(strUserPass, ColonChar[1])
         IN  IF nColon = npos THEN FALSE
             ELSE LET strUser == substr(strUserPass, 0, nColon)
                      strPassword == substrFrom(strUserPass, nColon + 1)
                  IN  strUser = port.user /\ strPassword = port.password

\* The ports' credentials: user "" or "u"; password "", "p" or "p:q".
AuthPorts ==
    [user : {<<>>, <<117>>}, password : {<<>>, <<112>>, <<112, 58, 113>>}]

\* The Authorization headers a request may carry. `basic` and `plain` state
\* what the header is (its scheme, and the text its value encodes); authorized
\* reads `present` and `value` only.
NoHeader == [present |-> FALSE, value |-> <<>>, basic |-> FALSE, plain |-> <<>>]
AuthHeaders == {
    NoHeader,
    \* "Basic dTpw"  (base64 of "u:p")
    [present |-> TRUE, value |-> <<66, 97, 115, 105, 99, 32, 100, 84, 112, 119>>,
     basic |-> TRUE, plain |-> <<117, 58, 112>>],
    \* "Basic dTpx"  (base64 of "u:q")
    [present |-> TRUE, value |-> <<66, 97, 115, 105, 99, 32, 100, 84, 112, 120>>,
     basic |-> TRUE, plain |-> <<117, 58, 113>>],
    \* "Basic eDpw"  (base64 of "x:p")
    [present |-> TRUE, value |-> <<66, 97, 115, 105, 99, 32, 101, 68, 112, 119>>,
     basic |-> TRUE, plain |-> <<120, 58, 112>>],
    \* "Basic dXA="  (base64 of "up")
    [present |-> TRUE, value |-> <<66, 97, 115, 105, 99, 32, 100, 88, 65, 61>>,
     basic |-> TRUE, plain |-> <<117, 112>>],
    \* "Basic dTpwOnE="  (base64 of "u:p:q")
    [present |-> TRUE,
     value |-> <<66, 97, 115, 105, 99, 32, 100, 84, 112, 119, 79, 110, 69, 61>>,
     basic |-> TRUE, plain |-> <<117, 58, 112, 58, 113>>],
    \* "Basic dTo="  (base64 of "u:")
    [present |-> TRUE, value |-> <<66, 97, 115, 105, 99, 32, 100, 84, 111, 61>>,
     basic |-> TRUE, plain |-> <<117, 58>>],
    \* "Basic   dTpw "  (base64 of "u:p", white space around it)
    [present |-> TRUE,
     value |-> <<66, 97, 115, 105, 99, 32, 32, 32, 100, 84, 112, 119, 32>>,
     basic |-> TRUE, plain |-> <<117, 58, 112>>],
    \* "Basic "
    [present |-> TRUE, value |-> <<66, 97, 115, 105, 99, 32>>,
     basic |-> TRUE, plain |-> <<>>],
    \* "Basic"
    [present |-> TRUE, value |-> <<66, 97, 115, 105, 99>>,
     basic |-> FALSE, plain |-> <<>>],
    \* "basic dTpw"
    [present |-> TRUE, value |-> <<98, 97, 115, 105, 99, 32, 100, 84, 112, 119>>,
     basic |-> FALSE, plain |-> <<>>],
    \* "Bearer dTpw"
    [present |-> TRUE, value |-> <<66, 101, 97, 114, 101, 114, 32, 100, 84, 112, 119>>,
     basic |-> FALSE, plain |-> <<>>],
    \* "BasicdTpw"
    [present |-> TRUE, value |-> <<66, 97, 115, 105, 99, 100, 84, 112, 119>>,
     basic |-> FALSE, plain |-> <<>>] }

InitAuthVars ==
    /\ aPort \in AuthPorts
    /\ aHdr \in AuthHeaders
    /\ aDone = FALSE
    /\ aResult = FALSE

\* authorized is called with the port and the request's header map.
AuthCall ==
    /\ ~aDone
    /\ aResult' = authorized(aPort, aHdr)
    /\ aDone' = TRUE
    /\ UNCHANGED <<aPort, aHdr>>
    /\ UNCHANGED notAuthVars

\* The next request, on any port.
AuthNextRequest ==
    /\ aDone
    /\ aPort' \in AuthPorts
    /\ aHdr' \in AuthHeaders
    /\ aDone' = FALSE
    /\ aResult' = FALSE
    /\ UNCHANGED notAuthVars


(***************************************************************************)
(* Json::Value, as far as the pipeline looks at it.                        *)
(***************************************************************************)
JNull == [t |-> "null"]
JInt == [t |-> "int"]
JString(s) == [t |-> "string", s |-> s]
JArray(a) == [t |-> "array", a |-> a]
JObject(m) == [t |-> "object", m |-> m]
EmptyObject == JObject(<<>>)

isObject(v) == v.t = "object"
isArray(v) == v.t = "array"
isString(v) == v.t = "string"
isMember(v, k) == isObject(v) /\ k \in DOMAIN v.m
size(v) == IF isArray(v) THEN Len(v.a) ELSE IF isObject(v) THEN Cardinality(DOMAIN v.m) ELSE 0
\* v[k] of an object: the member, or null when there is none.
Get(v, k) == IF isMember(v, k) THEN v.m[k] ELSE JNull
\* v[k] = x.
Put(v, k, x) == JObject((k :> x) @@ v.m)

\* `! value` (Json::Value::operator!, defined outside this file): the value is
\* absent, that is null.
IsNot(v) == v.t = "null"

(***************************************************************************)
(* The requests.                                                           *)
(***************************************************************************)
maxRequestSize == 1000000

\* The ports a session may have been accepted on.
ReqPorts == {
    [protocol |-> {"http"}, user |-> <<>>, password |-> <<>>],
    [protocol |-> {"https"}, user |-> <<117>>, password |-> <<112>>],
    [protocol |-> {"peer"}, user |-> <<>>, password |-> <<>>] }

\* No Authorization header, "Basic dTpw" (u:p) and "Basic dTpx" (u:q).
ReqAuthHeaders ==
    {h \in AuthHeaders :
        \/ ~h.present
        \/ h.value \in {<<66, 97, 115, 105, 99, 32, 100, 84, 112, 119>>,
                        <<66, 97, 115, 105, 99, 32, 100, 84, 112, 120>>}}

SomeObject == JObject("ledger_index" :> JInt)
OtherObject == JObject("account" :> JString("r"))

Methods == {JNull, JInt, JString(""), JString("ping")}
ParamsValues == {
    JNull,                                \* no params
    SomeObject,                           \* not an array
    JArray(<<>>),                         \* []
    JArray(<<SomeObject>>),               \* [ {..} ]
    JArray(<<JInt>>),                     \* [ 1 ]
    JArray(<<SomeObject, OtherObject>>) } \* [ {..}, {..} ]

\* {"method": m, "params": p}, a member left out when its value is null.
RequestObject(m, p) ==
    JObject([k \in ({"method"} \ (IF m = JNull THEN {"method"} ELSE {}))
                   \cup ({"params"} \ (IF p = JNull THEN {"params"} ELSE {}))
               |-> IF k = "method" THEN m ELSE p])

\* What Json::Reader::parse makes of the body: it fails, or it yields a value.
ParseFailure == [ok |-> FALSE, value |-> JNull]
Parsed(v) == [ok |-> TRUE, value |-> v]
Documents ==
    {ParseFailure, Parsed(JNull), Parsed(JArray(<<SomeObject>>))}
        \cup {Parsed(RequestObject(m, p)) : m \in Methods, p \in ParamsValues}

Bodies == [size : {maxRequestSize, maxRequestSize + 1}, doc : Documents]

\* X-Forwarded-For and X-User: absent ("") or given.
Requests ==
    [port : ReqPorts, auth : ReqAuthHeaders, body : Bodies,
     xForwardedFor : {"", "10.0.0.1"}, xUser : {"", "alice"},
     keep_alive : BOOLEAN]

\* Role: the two named by the handler, FORBID and IDENTIFIED, and the others.
Roles == {"FORBID", "GUEST", "IDENTIFIED", "ADMIN", "UNLIMITED"}

NoUsage == [obtained |-> FALSE, unlimited |-> FALSE, disconnect |-> FALSE]
NoContext == [made |-> FALSE, params |-> JNull, role |-> "FORBID",
              user |-> "", forwardedFor |-> ""]

\* The entries of the trace: a call the handler made, or a reply it wrote.
Did(what) == [e |-> what, status |-> 0, msg |-> "", body |-> JNull]
\* HTTPReply (status, message, output, journal)
HTTPReply(status, msg) == [e |-> "reply", status |-> status, msg |-> msg, body |-> JNull]
\* HTTPReply (200, response, output, journal), response = to_string (reply) + '\n'
HTTPReply200(reply) == [e |-> "reply", status |-> 200, msg |-> "", body |-> reply]

jsonRPC == rq.body.doc.value

\* No request yet: the session waits for one.
NoRequest ==
    [port |-> [protocol |-> {"http"}, user |-> <<>>, password |-> <<>>],
     auth |-> NoHeader,
     body |-> [size |-> maxRequestSize, doc |-> ParseFailure],
     xForwardedFor |-> "", xUser |-> "", keep_alive |-> FALSE]

InitReqVars ==
    /\ rq = NoRequest
    /\ rpc = "waiting"
    /\ role = "FORBID"
    /\ hint = JNull
    /\ forwardedFor = ""
    /\ user = ""
    /\ usage = NoUsage
    /\ strMethod = ""
    /\ params = JNull
    /\ context = NoContext
    /\ result = JNull
    /\ response = JNull
    /\ trace = <<>>
    /\ by = <<>>
    /\ runner = "none"

\* The contexts: the I/O context of the session, in which the server calls
\* onRequest, and the job queue's, in which a posted coroutine is run.
\* m_jobQueue.postCoro hands the coroutine to the job queue and returns.
postCoro == "job"

\* The entries a step adds to the trace are made by the context who.
RECURSIVE Times(_, _)
Times(who, n) == IF n = 0 THEN <<>> ELSE <<who>> \o Times(who, n - 1)
Marked(who) == by' = by \o Times(who, Len(trace') - Len(trace))

\* A request has been read on a session: the server will call onRequest.
RequestArrives ==
    /\ rpc = "waiting"
    /\ rq' \in Requests
    /\ rpc' = "onRequest"
    /\ UNCHANGED <<role, hint, forwardedFor, user, usage, strMethod, params,
                   context, result, response, trace, by, runner>>
    /\ UNCHANGED notReqVars

(***************************************************************************)
(* onRequest, in the I/O context of the session.                           *)
(***************************************************************************)

\* The two gates of onRequest: RPC is enabled on the port, and the request is
\* authorized.
RpcEnabled(port) == ~("http" \notin port.protocol /\ "https" \notin port.protocol)
PassesGatesNoAuth(r) == RpcEnabled(r.port)
PassesGates(r) == RpcEnabled(r.port) /\ authorized(r.port, r.auth)

\* onRequest calling processSession itself, where it posts the job.
onRequest_RunsJobItself ==
    /\ rpc = "onRequest"
    /\ IF PassesGates(rq)
       THEN /\ trace' = trace \o <<Did("detach"), Did("postCoro")>>
            /\ runner' = "io"
            /\ rpc' = "queued"
       ELSE /\ trace' = trace \o <<HTTPReply(403, "Forbidden"), Did("close")>>
            /\ runner' = runner
            /\ rpc' = "closed"
    /\ Marked("io")
    /\ UNCHANGED <<rq, role, hint, forwardedFor, user, usage, strMethod, params,
                   context, result, response>>
    /\ UNCHANGED notReqVars

onRequest ==
    /\ rpc = "onRequest"
    /\ IF PassesGates(rq)
       THEN /\ trace' = trace \o <<Did("detach"), Did("postCoro")>>
            /\ runner' = postCoro
            /\ rpc' = "queued"
       ELSE /\ trace' = trace \o <<HTTPReply(403, "Forbidden"), Did("close")>>
            /\ runner' = runner
            /\ rpc' = "closed"
    /\ Marked("io")
    /\ UNCHANGED <<rq, role, hint, forwardedFor, user, usage, strMethod, params,
                   context, result, response>>
    /\ UNCHANGED notReqVars

(***************************************************************************)
(* processSession and processRequest, in the job.                          *)
(***************************************************************************)

\* The job starts: processSession reads the two headers and calls
\* processRequest.
processSession_start ==
    /\ rpc = "queued"
    /\ forwardedFor' = rq.xForwardedFor
    /\ user' = rq.xUser
    /\ trace' = Append(trace, Did("processSession"))
    /\ rpc' = "parse"
    /\ UNCHANGED <<rq, role, hint, usage, strMethod, params, context, result, response>>
    /\ runner' = runner /\ Marked(runner)
    /\ UNCHANGED notReqVars

\* The body is too large, does not parse, or is not an object.
UnparseableNoSize(body) ==
    \/ ~body.doc.ok
    \/ IsNot(body.doc.value)
    \/ ~isObject(body.doc.value)
Unparseable(body) ==
    \/ body.size > maxRequestSize
    \/ ~body.doc.ok
    \/ IsNot(body.doc.value)
    \/ ~isObject(body.doc.value)

processRequest_parse ==
    /\ rpc = "parse"
    /\ IF Unparseable(rq.body)
       THEN /\ trace' = Append(trace, HTTPReply(400, "Unable to parse request"))
            /\ rpc' = "finish"
       ELSE /\ trace' = trace
            /\ rpc' = "method"
    /\ UNCHANGED <<rq, role, hint, forwardedFor, user, usage, strMethod, params,
                   context, result, response>>
    /\ runner' = runner /\ Marked(runner)
    /\ UNCHANGED notReqVars

\* The method tests without the isString test.
processRequest_method_NoStringTest ==
    /\ rpc = "method"
    /\ LET method == Get(jsonRPC, "method") IN
        IF IsNot(method)
        THEN /\ trace' = Append(trace, HTTPReply(400, "Null method"))
             /\ rpc' = "finish"
        ELSE /\ trace' = trace
             /\ rpc' = "role"
    /\ UNCHANGED <<rq, role, hint, forwardedFor, user, usage, strMethod, params,
                   context, result, response>>
    /\ runner' = runner /\ Marked(runner)
    /\ UNCHANGED notReqVars

processRequest_method ==
    /\ rpc = "method"
    /\ LET method == Get(jsonRPC, "method") IN
        IF IsNot(method)
        THEN /\ trace' = Append(trace, HTTPReply(400, "Null method"))
             /\ rpc' = "finish"
        ELSE IF ~isString(method)
        THEN /\ trace' = Append(trace, HTTPReply(400, "method is not string"))
             /\ rpc' = "finish"
        ELSE /\ trace' = trace
             /\ rpc' = "role"
    /\ UNCHANGED <<rq, role, hint, forwardedFor, user, usage, strMethod, params,
                   context, result, response>>
    /\ runner' = runner /\ Marked(runner)
    /\ UNCHANGED notReqVars

\* The object handed to requestRole: params[0] when params is a non-empty
\* array starting with an object, else an empty object.
RoleHint(doc) ==
    IF /\ isObject(doc) /\ isMember(doc, "params")
       /\ isArray(doc.m["params"]) /\ size(doc.m["params"]) > 0
       /\ isObject(doc.m["params"].a[1])
    THEN doc.m["params"].a[1]
    ELSE EmptyObject

\* The header-assigned values after the role is known.
KeptAlways(r, value) == value
Kept(r, value) == IF r # "IDENTIFIED" THEN "" ELSE value

\* requestRole answers any role.
processRequest_role ==
    /\ rpc = "role"
    /\ hint' = RoleHint(jsonRPC)
    /\ \E r \in Roles :
        /\ role' = r
        /\ forwardedFor' = Kept(r, forwardedFor)
        /\ user' = Kept(r, user)
    /\ trace' = Append(trace, Did("requestRole"))
    /\ rpc' = "usage"
    /\ UNCHANGED <<rq, usage, strMethod, params, context, result, response>>
    /\ runner' = runner /\ Marked(runner)
    /\ UNCHANGED notReqVars

\* The consumer is obtained (isUnlimited and the resource manager answer
\* anything), and asked whether to disconnect.
AdmitAlways(u) == TRUE
Admit(u) == ~u.disconnect

processRequest_usage ==
    /\ rpc = "usage"
    /\ \E unl \in BOOLEAN, disc \in BOOLEAN :
        LET u == [obtained |-> TRUE, unlimited |-> unl, disconnect |-> disc] IN
        /\ usage' = u
        /\ IF Admit(u)
           THEN /\ trace' = Append(trace, Did("newEndpoint"))
                /\ rpc' = "empty"
           ELSE /\ trace' = trace \o <<Did("newEndpoint"),
                                       HTTPReply(503, "Server is overloaded")>>
                /\ rpc' = "finish"
    /\ UNCHANGED <<rq, role, hint, forwardedFor, user, strMethod, params,
                   context, result, response>>
    /\ runner' = runner /\ Marked(runner)
    /\ UNCHANGED notReqVars

processRequest_empty ==
    /\ rpc = "empty"
    /\ strMethod' = Get(jsonRPC, "method").s
    /\ IF Get(jsonRPC, "method").s = ""
       THEN /\ trace' = Append(trace, HTTPReply(400, "method is empty"))
            /\ rpc' = "finish"
       ELSE /\ trace' = trace
            /\ rpc' = "params"
    /\ UNCHANGED <<rq, role, hint, forwardedFor, user, usage, params,
                   context, result, response>>
    /\ runner' = runner /\ Marked(runner)
    /\ UNCHANGED notReqVars

\* The params tests taking the first element of an array of any size.
processRequest_params_AnySize ==
    /\ rpc = "params"
    /\ LET p == Get(jsonRPC, "params") IN
        IF IsNot(p)
        THEN /\ params' = EmptyObject
             /\ trace' = trace
             /\ rpc' = "forbid"
        ELSE IF ~isArray(p) \/ size(p) < 1
        THEN /\ params' = p
             /\ trace' = Append(trace, HTTPReply(400, "params unparseable"))
             /\ rpc' = "finish"
        ELSE IF ~isObject(p.a[1])
        THEN /\ params' = p.a[1]
             /\ trace' = Append(trace, HTTPReply(400, "params unparseable"))
             /\ rpc' = "finish"
        ELSE /\ params' = p.a[1]
             /\ trace' = trace
             /\ rpc' = "forbid"
    /\ UNCHANGED <<rq, role, hint, forwardedFor, user, usage, strMethod,
                   context, result, response>>
    /\ runner' = runner /\ Marked(runner)
    /\ UNCHANGED notReqVars

processRequest_params ==
    /\ rpc = "params"
    /\ LET p == Get(jsonRPC, "params") IN
        IF IsNot(p)
        THEN /\ params' = EmptyObject
             /\ trace' = trace
             /\ rpc' = "forbid"
        ELSE IF ~isArray(p) \/ size(p) # 1
        THEN /\ params' = p
             /\ trace' = Append(trace, HTTPReply(400, "params unparseable"))
             /\ rpc' = "finish"
        ELSE IF ~isObject(p.a[1])
        THEN /\ params' = p.a[1]
             /\ trace' = Append(trace, HTTPReply(400, "params unparseable"))
             /\ rpc' = "finish"
        ELSE /\ params' = p.a[1]
             /\ trace' = trace
             /\ rpc' = "forbid"
    /\ UNCHANGED <<rq, role, hint, forwardedFor, user, usage, strMethod,
                   context, result, response>>
    /\ runner' = runner /\ Marked(runner)
    /\ UNCHANGED notReqVars

\* processRequest without the test of the role.
processRequest_forbid_NoTest ==
    /\ rpc = "forbid"
    /\ trace' = trace
    /\ rpc' = "exec"
    /\ UNCHANGED <<rq, role, hint, forwardedFor, user, usage, strMethod, params,
                   context, result, response>>
    /\ runner' = runner /\ Marked(runner)
    /\ UNCHANGED notReqVars

processRequest_forbid ==
    /\ rpc = "forbid"
    /\ IF role = "FORBID"
       THEN /\ trace' = Append(trace, HTTPReply(403, "Forbidden"))
            /\ rpc' = "finish"
       ELSE /\ trace' = trace
            /\ rpc' = "exec"
    /\ UNCHANGED <<rq, role, hint, forwardedFor, user, usage, strMethod, params,
                   context, result, response>>
    /\ runner' = runner /\ Marked(runner)
    /\ UNCHANGED notReqVars

\* What RPC::doCommand may leave in `result`: no error, or an error.
ExecResults == {EmptyObject, JObject("error" :> JString("unknownCmd"))}

\* The command is put into params, the context is built and doCommand runs.
processRequest_exec ==
    /\ rpc = "exec"
    /\ LET withCommand == Put(params, "command", JString(strMethod)) IN
        /\ params' = withCommand
        /\ context' = [made |-> TRUE, params |-> withCommand, role |-> role,
                       user |-> user, forwardedFor |-> forwardedFor]
    /\ result' \in ExecResults
    /\ trace' = Append(trace, Did("doCommand"))
    /\ rpc' = "shape"
    /\ UNCHANGED <<rq, role, hint, forwardedFor, user, usage, strMethod, response>>
    /\ runner' = runner /\ Marked(runner)
    /\ UNCHANGED notReqVars

\* The shaping that leaves "request" out of an error result.
ShapedNoRequest(res, par) ==
    IF isMember(res, "error")
    THEN Put(res, "status", JString("error"))
    ELSE Put(res, "status", JString("success"))

\* The text of a Json value, and the text with '\n' appended: the text is
\* kept as the value it was made from, and whether the newline follows it.
to_string(v) == [text |-> v, newline |-> FALSE]
AppendNewline(s) == [s EXCEPT !.newline = TRUE]

\* "status" (and on an error "request") is added, and the reply is built.
Shaped(res, par) ==
    IF isMember(res, "error")
    THEN Put(Put(res, "status", JString("error")), "request", par)
    ELSE Put(res, "status", JString("success"))

processRequest_shape ==
    /\ rpc = "shape"
    /\ result' = Shaped(result, params)
    /\ response' = to_string(JObject("result" :> Shaped(result, params)))
    /\ trace' = Append(trace, Did("to_string"))
    /\ rpc' = "metrics"
    /\ UNCHANGED <<rq, role, hint, forwardedFor, user, usage, strMethod, params, context>>
    /\ runner' = runner /\ Marked(runner)
    /\ UNCHANGED notReqVars

processRequest_metrics ==
    /\ rpc = "metrics"
    /\ trace' = trace \o <<Did("rpc_time_.notify"), Did("++rpc_requests_"),
                           Did("rpc_size_.notify")>>
    /\ rpc' = "charge"
    /\ UNCHANGED <<rq, role, hint, forwardedFor, user, usage, strMethod, params,
                   context, result, response>>
    /\ runner' = runner /\ Marked(runner)
    /\ UNCHANGED notReqVars

\* response += '\n', usage.charge (loadType), then the reply.
FinalCallsReplyFirst(resp) == <<HTTPReply200(resp), Did("usage.charge")>>
FinalCalls(resp) == <<Did("usage.charge"), HTTPReply200(resp)>>

processRequest_reply ==
    /\ rpc = "charge"
    /\ response' = AppendNewline(response)
    /\ trace' = trace \o FinalCalls(AppendNewline(response))
    /\ rpc' = "finish"
    /\ UNCHANGED <<rq, role, hint, forwardedFor, user, usage, strMethod, params,
                   context, result>>
    /\ runner' = runner /\ Marked(runner)
    /\ UNCHANGED notReqVars

\* The end of processSession with the else lost: complete, and close as well.
processSession_finish_NoElse ==
    /\ rpc = "finish"
    /\ trace' = trace \o (IF rq.keep_alive THEN <<Did("complete"), Did("close")>>
                                            ELSE <<Did("close")>>)
    /\ rpc' = "done"
    /\ UNCHANGED <<rq, role, hint, forwardedFor, user, usage, strMethod, params,
                   context, result, response>>
    /\ runner' = runner /\ Marked(runner)
    /\ UNCHANGED notReqVars

\* processRequest has returned: the session is completed or closed.
processSession_finish ==
    /\ rpc = "finish"
    /\ trace' = Append(trace, IF rq.keep_alive THEN Did("complete") ELSE Did("close"))
    /\ rpc' = "done"
    /\ UNCHANGED <<rq, role, hint, forwardedFor, user, usage, strMethod, params,
                   context, result, response>>
    /\ runner' = runner /\ Marked(runner)
    /\ UNCHANGED notReqVars

\* The exchange is over; the handler's locals are gone.
NextRequest ==
    /\ rpc \in {"closed", "done"}
    /\ rq' = NoRequest
    /\ rpc' = "waiting"
    /\ role' = "FORBID"
    /\ hint' = JNull
    /\ forwardedFor' = ""
    /\ user' = ""
    /\ usage' = NoUsage
    /\ strMethod' = ""
    /\ params' = JNull
    /\ context' = NoContext
    /\ result' = JNull
    /\ response' = JNull
    /\ trace' = <<>>
    /\ by' = <<>>
    /\ runner' = "none"
    /\ UNCHANGED notReqVars

NextReq ==
    \/ RequestArrives
    \/ onRequest
    \/ processSession_start
    \/ processRequest_parse
    \/ processRequest_method
    \/ processRequest_role
    \/ processRequest_usage
    \/ processRequest_empty
    \/ processRequest_params
    \/ processRequest_forbid
    \/ processRequest_exec
    \/ processRequest_shape
    \/ processRequest_metrics
    \/ processRequest_reply
    \/ processSession_finish
    \/ NextRequest

(***************************************************************************)
(* The handoff decision: onHandoff for a TLS connection (ssl_bundle) and   *)
(* for a plain one (socket).                                               *)
(***************************************************************************)
\* A Handoff as its default constructor leaves it: not moved, no response.
\* This is what "Handoff handoff;" and "Handoff{}" both yield.
HandoffDefault == [moved |-> FALSE, keep_alive |-> FALSE, response |-> FALSE]
\* What the overlay's own onHandoff may return: the default (it declined),
\* the connection taken, or a response to send.
OverlayHandoffs ==
    {HandoffDefault,
     [moved |-> TRUE, keep_alive |-> FALSE, response |-> FALSE],
     [moved |-> FALSE, keep_alive |-> FALSE, response |-> TRUE]}

\* The protocol sets of the ports a Setup can hold (see to_Port).
HandoffProtocols ==
    {{"http"}, {"https"}, {"http", "https"}, {"peer"}, {"peer", "http"},
     {"peer", "https"}, {"ws"}, {"wss"}, {"ws", "wss"}}
\* Header values, as the ASCII codes of their characters: "websocket",
\* "WebSocket", "WEBSOCKET", "h2c", and "" for a header that is not there.
websocket == <<119, 101, 98, 115, 111, 99, 107, 101, 116>>
WebSocket == <<87, 101, 98, 83, 111, 99, 107, 101, 116>>
WEBSOCKET == <<87, 69, 66, 83, 79, 67, 75, 69, 84>>
h2c == <<104, 50, 99>>
NoValue == <<>>
\* The first request: whether it declares an upgrade (request.upgrade()),
\* and its Upgrade header.
HandoffRequests ==
    [upgrade : BOOLEAN, Upgrade : {NoValue, websocket, WebSocket, WEBSOCKET, h2c}]
RemoteAddresses == {"192.0.2.1:40000", "192.0.2.2:40001"}
HandoffCalls ==
    [tls : BOOLEAN, protocol : HandoffProtocols, request : HandoffRequests,
     remote_address : RemoteAddresses]

NoHandoffCall ==
    [tls |-> FALSE, protocol |-> {"http"},
     request |-> [upgrade |-> FALSE, Upgrade |-> NoValue], remote_address |-> ""]
NoOverlayCall ==
    [called |-> FALSE, bundle |-> FALSE,
     request |-> [upgrade |-> FALSE, Upgrade |-> NoValue], remote_address |-> ""]
\* app_.overlay().onHandoff (std::move(bundle), std::move(request), remote_address)
OverlayCall(call) ==
    [called |-> TRUE, bundle |-> call.tls,
     request |-> call.request, remote_address |-> call.remote_address]

InitHandoffVars ==
    /\ hs = "idle"
    /\ hin = NoHandoffCall
    /\ hout = HandoffDefault
    /\ hov = NoOverlayCall

isWebsocketUpgrade(request) ==
    IF request.upgrade
    THEN request.Upgrade = websocket
    ELSE FALSE

\* The server has read the first request of a connection and calls onHandoff.
HandoffArrives ==
    /\ hs = "idle"
    /\ hin' \in HandoffCalls
    /\ hs' = "called"
    /\ UNCHANGED <<hout, hov>>
    /\ UNCHANGED notHandoffVars

\* onHandoff (ssl_bundle) without the peer branch.
onHandoff_ssl_NoPeer ==
    /\ hs = "called" /\ hin.tls
    /\ hout' = HandoffDefault
    /\ hov' = NoOverlayCall
    /\ hs' = "returned"
    /\ UNCHANGED hin
    /\ UNCHANGED notHandoffVars

\* onHandoff (Session&, std::unique_ptr<ssl_bundle>&&, message&&, endpoint)
onHandoff_ssl ==
    /\ hs = "called" /\ hin.tls
    /\ IF "wss" \in hin.protocol /\ isWebsocketUpgrade(hin.request)
       THEN \* "Pass to websockets": a Handoff with nothing set
            /\ hout' = HandoffDefault
            /\ hov' = NoOverlayCall
       ELSE IF "peer" \in hin.protocol
       THEN /\ hout' \in OverlayHandoffs
            /\ hov' = OverlayCall(hin)
       ELSE /\ hout' = HandoffDefault
            /\ hov' = NoOverlayCall
    /\ hs' = "returned"
    /\ UNCHANGED hin
    /\ UNCHANGED notHandoffVars

\* onHandoff (Session&, tcp::socket&&, message&&, endpoint)
onHandoff_socket ==
    /\ hs = "called" /\ ~hin.tls
    /\ IF "ws" \in hin.protocol /\ isWebsocketUpgrade(hin.request)
       THEN /\ hout' = HandoffDefault
            /\ hov' = NoOverlayCall
       ELSE /\ hout' = HandoffDefault
            /\ hov' = NoOverlayCall
    /\ hs' = "returned"
    /\ UNCHANGED hin
    /\ UNCHANGED notHandoffVars

\* The next connection.
HandoffNextConnection ==
    /\ hs = "returned"
    /\ hs' = "idle"
    /\ hin' = NoHandoffCall
    /\ hout' = HandoffDefault
    /\ hov' = NoOverlayCall
    /\ UNCHANGED notHandoffVars

NextHandoff ==
    \/ HandoffArrives
    \/ onHandoff_ssl
    \/ onHandoff_socket
    \/ HandoffNextConnection

(***************************************************************************)
(* The construction of the Setup: to_Port, parse_Ports, setup_Client,      *)
(* setup_Overlay and setup_ServerHandler.                                  *)
(***************************************************************************)
\* A boost::optional is the empty set or the set of its one value.
Missing == {}
Given(v) == {v}
ValueOf(opt) == CHOOSE v \in opt : TRUE

\* Addresses, and the text ip.to_string() makes of them.
AnyAddress == <<0, 0, 0, 0>>
AddressA == <<10, 0, 0, 2>>
AddressB == <<10, 0, 0, 3>>
AddressText ==
    (AnyAddress :> "0.0.0.0") @@ (AddressA :> "10.0.0.2") @@ (AddressB :> "10.0.0.3")
ip_to_string(ip) == AddressText[ip]

\* A ParsedPort as parse_Port leaves it, before parse_Ports names it.
ParsedPort(ip, port, protocol, usr, pwd) ==
    [name |-> 0, ip |-> ip, port |-> port, protocol |-> protocol,
     user |-> usr, password |-> pwd]

\* The sections a [server] list may name: there or not, and what parse_Port
\* made of them.
Section(parsed) == [exists |-> TRUE, parsed |-> parsed]
MissingSection ==
    [exists |-> FALSE, parsed |-> ParsedPort(Missing, Missing, {}, "", "")]
Sections ==
    {Section(ParsedPort(Given(AnyAddress), Given(5005), {"http"}, "u", "p")),
     Section(ParsedPort(Given(AddressB), Given(5006), {"https"}, "", "")),
     Section(ParsedPort(Given(AddressA), Given(51235), {"peer"}, "", "")),
     Section(ParsedPort(Given(AddressB), Given(51236), {"peer", "http"}, "", "")),
     Section(ParsedPort(Given(AddressA), Given(6006), {"ws"}, "", "")),
     Section(ParsedPort(Given(AddressA), Given(6007), {"wss", "https"}, "", "")),
     Section(ParsedPort(Given(AddressA), Given(6008), {"ws", "peer"}, "", "")),
     Section(ParsedPort(Missing, Given(5005), {"http"}, "", "")),
     Section(ParsedPort(Given(AddressA), Missing, {"http"}, "", "")),
     Section(ParsedPort(Given(AddressA), Given(0), {"http"}, "", "")),
     Section(ParsedPort(Given(AddressA), Given(5005), {}, "", "")),
     MissingSection}

\* A Config: whether it has [server], the sections [server] names, in order,
\* and RUN_STANDALONE.
Configs ==
    [server : BOOLEAN,
     names : UNION {[1 .. n -> Sections] : n \in 0 .. MaxConfigPorts},
     RUN_STANDALONE : BOOLEAN]
NoConfig == [server |-> FALSE, names |-> <<>>, RUN_STANDALONE |-> FALSE]

\* A call returns a value, or throws; either way it may have logged.
Returned(v, log) == [thrown |-> FALSE, log |-> log, value |-> v]
Thrown(v, log) == [thrown |-> TRUE, log |-> log, value |-> v]

\* Port p; as declared, before anything is assigned.
NewPort ==
    [name |-> 0, ip |-> AnyAddress, port |-> 0, protocol |-> {},
     user |-> "", password |-> ""]

\* Port::websockets
websockets(p) == "ws" \in p.protocol \/ "wss" \in p.protocol

\* to_Port without the test of the protocol combination.
to_Port_AnyCombination(parsed) ==
    IF parsed.ip = Missing
    THEN Thrown(NewPort, <<"Missing 'ip'">>)
    ELSE IF parsed.port = Missing
    THEN Thrown(NewPort, <<"Missing 'port'">>)
    ELSE IF ValueOf(parsed.port) = 0
    THEN Thrown(NewPort, <<"Port is invalid">>)
    ELSE IF parsed.protocol = {}
    THEN Thrown(NewPort, <<"Missing 'protocol'">>)
    ELSE Returned([name |-> parsed.name, ip |-> ValueOf(parsed.ip),
                   port |-> ValueOf(parsed.port), protocol |-> parsed.protocol,
                   user |-> parsed.user, password |-> parsed.password], <<>>)

to_Port(parsed) ==
    IF parsed.ip = Missing
    THEN Thrown(NewPort, <<"Missing 'ip'">>)
    ELSE IF parsed.port = Missing
    THEN Thrown(NewPort, <<"Missing 'port'">>)
    ELSE IF ValueOf(parsed.port) = 0
    THEN Thrown(NewPort, <<"Port is invalid">>)
    ELSE IF parsed.protocol = {}
    THEN Thrown(NewPort, <<"Missing 'protocol'">>)
    ELSE IF /\ websockets([protocol |-> parsed.protocol])
            /\ \/ "peer" \in parsed.protocol
               \/ "http" \in parsed.protocol
               \/ "https" \in parsed.protocol
    THEN Thrown(NewPort, <<"Invalid protocol combination">>)
    ELSE Returned([name |-> parsed.name, ip |-> ValueOf(parsed.ip),
                   port |-> ValueOf(parsed.port), protocol |-> parsed.protocol,
                   user |-> parsed.user, password |-> parsed.password], <<>>)

\* The loop of parse_Ports over the names of [server], from the i-th on:
\* the name of a section is its place in the list.
RECURSIVE PortsFrom(_, _, _)
PortsFrom(names, i, res) ==
    IF i > Len(names)
    THEN Returned(res, <<>>)
    ELSE IF ~names[i].exists
    THEN Thrown(<<>>, <<"Missing section">>)
    ELSE LET port == to_Port([names[i].parsed EXCEPT !.name = i]) IN
         IF port.thrown
         THEN Thrown(<<>>, port.log)
         ELSE PortsFrom(names, i + 1, Append(res, port.value))

\* The stand-alone loop dropping every port that had peer.
RECURSIVE ErasePeer_DropAll(_)
ErasePeer_DropAll(res) ==
    IF res = <<>>
    THEN <<>>
    ELSE IF "peer" \in Head(res).protocol
    THEN ErasePeer_DropAll(Tail(res))
    ELSE <<Head(res)>> \o ErasePeer_DropAll(Tail(res))

\* The stand-alone loop: peer is erased from each port, and a port that had
\* peer and is left with nothing is erased from the list.
RECURSIVE ErasePeer(_)
ErasePeer(res) ==
    IF res = <<>>
    THEN <<>>
    ELSE LET p == Head(res).protocol
             erased == IF "peer" \in p THEN 1 ELSE 0
             left == p \ {"peer"}
         IN  IF erased # 0 /\ left = {}
             THEN ErasePeer(Tail(res))
             ELSE <<[Head(res) EXCEPT !.protocol = left]>> \o ErasePeer(Tail(res))

\* std::count_if over the ports offering peer.
PeerCount(res) ==
    Cardinality({i \in 1 .. Len(res) : "peer" \in res[i].protocol})

\* parse_Ports without the count of the peer ports.
parse_Ports_NoCount(cfg) ==
    IF ~cfg.server
    THEN Thrown(<<>>, <<"Required section [server] is missing">>)
    ELSE LET ports == PortsFrom(cfg.names, 1, <<>>) IN
         IF ports.thrown
         THEN ports
         ELSE IF cfg.RUN_STANDALONE
         THEN Returned(ErasePeer(ports.value), <<>>)
         ELSE Returned(ports.value, <<>>)

parse_Ports(cfg) ==
    IF ~cfg.server
    THEN Thrown(<<>>, <<"Required section [server] is missing">>)
    ELSE LET ports == PortsFrom(cfg.names, 1, <<>>) IN
         IF ports.thrown
         THEN ports
         ELSE IF cfg.RUN_STANDALONE
         THEN Returned(ErasePeer(ports.value), <<>>)
         ELSE IF PeerCount(ports.value) > 1
         THEN Thrown(<<>>, <<"Error: More than one peer protocol configured in [server]">>)
         ELSE IF PeerCount(ports.value) = 0
         THEN Returned(ports.value, <<"Warning: No peer protocol configured">>)
         ELSE Returned(ports.value, <<>>)

\* ServerHandler::Setup setup; as declared: no ports, and the client and
\* overlay parts not filled out.
NewSetup ==
    [ports |-> <<>>,
     client |-> [filled |-> FALSE, secure |-> FALSE, ip |-> "", port |-> 0,
                 user |-> "", password |-> ""],
     overlay |-> [filled |-> FALSE, ip |-> AnyAddress, port |-> 0]]

OffersRpc(port) == "http" \in port.protocol \/ "https" \in port.protocol
OffersPeer(port) == "peer" \in port.protocol

\* The first place of the list whose port offers http or https, and the
\* first whose port offers peer; one past the end when there is none.
FirstRpcPort(ports) ==
    IF \E i \in 1 .. Len(ports) : OffersRpc(ports[i])
    THEN CHOOSE i \in 1 .. Len(ports) :
             OffersRpc(ports[i]) /\ \A j \in 1 .. i - 1 : ~OffersRpc(ports[j])
    ELSE Len(ports) + 1
FirstPeerPort(ports) ==
    IF \E i \in 1 .. Len(ports) : OffersPeer(ports[i])
    THEN CHOOSE i \in 1 .. Len(ports) :
             OffersPeer(ports[i]) /\ \A j \in 1 .. i - 1 : ~OffersPeer(ports[j])
    ELSE Len(ports) + 1

setup_Client(s) ==
    LET iter == FirstRpcPort(s.ports) IN
    IF iter = Len(s.ports) + 1
    THEN s
    ELSE [s EXCEPT !.client =
             [filled |-> TRUE,
              secure |-> "https" \in s.ports[iter].protocol,
              ip |-> IF ip_to_string(s.ports[iter].ip) = "0.0.0.0"
                     THEN "127.0.0.1"
                     ELSE ip_to_string(s.ports[iter].ip),
              port |-> s.ports[iter].port,
              user |-> s.ports[iter].user,
              password |-> s.ports[iter].password]]

setup_Overlay(s) ==
    LET iter == FirstPeerPort(s.ports) IN
    IF iter = Len(s.ports) + 1
    THEN [s EXCEPT !.overlay.port = 0]
    ELSE [s EXCEPT !.overlay =
             [filled |-> TRUE, ip |-> s.ports[iter].ip, port |-> s.ports[iter].port]]

\* What setup_ServerHandler (config, log) returns or throws.
SetupOf(cfg) ==
    LET ports == parse_Ports(cfg) IN
    IF ports.thrown
    THEN Thrown(NewSetup, ports.log)
    ELSE Returned(setup_Overlay(setup_Client([NewSetup EXCEPT !.ports = ports.value])),
                  ports.log)

InitSetupVars ==
    /\ sst = "idle"
    /\ config = NoConfig
    /\ setup = Thrown(NewSetup, <<>>)

setup_ServerHandler ==
    /\ sst = "idle"
    /\ \E cfg \in Configs :
        /\ config' = cfg
        /\ setup' = SetupOf(cfg)
    /\ sst' = "returned"
    /\ UNCHANGED notSetupVars

\* The node is started again, with another Config.
SetupNextStart ==
    /\ sst = "returned"
    /\ sst' = "idle"
    /\ config' = NoConfig
    /\ setup' = Thrown(NewSetup, <<>>)
    /\ UNCHANGED notSetupVars

NextSetup ==
    \/ setup_ServerHandler
    \/ SetupNextStart

(***************************************************************************)
(* The specifications: each runs one part of the handler and leaves the    *)
(* state of the others as constructed.                                     *)
(***************************************************************************)
ConnIdle ==
    /\ limit = [p \in Ports |-> 0]
    /\ count = [p \in Ports |-> 0]
    /\ countlock = None
    /\ spc = [s \in Sessions |-> "new"]
    /\ sport = [s \in Sessions |-> None]
    /\ reg = [s \in Sessions |-> 0]
    /\ before = [s \in Sessions |-> 0]
    /\ c = [s \in Sessions |-> 0]
    /\ net = [p \in Ports |-> 0]
    /\ last = [p \in Ports |-> NoCall]
    /\ stage = [p \in Ports |-> 0]

AuthIdle ==
    /\ aPort = [user |-> <<>>, password |-> <<>>]
    /\ aHdr = NoHeader
    /\ aDone = FALSE
    /\ aResult = FALSE

ReqIdle == InitReqVars
HandoffIdle == InitHandoffVars
SetupIdle == InitSetupVars

\* Connection admission: sessions calling onAccept and onClose concurrently.
InitConn == InitConnVars /\ AuthIdle /\ ReqIdle /\ HandoffIdle /\ SetupIdle
Spec == InitConn /\ [][NextConn]_vars

\* authorized, called on every port and header of the sets above.
InitAuth == InitAuthVars /\ ConnIdle /\ ReqIdle /\ HandoffIdle /\ SetupIdle
NextAuth == AuthCall \/ AuthNextRequest
AuthSpec == InitAuth /\ [][NextAuth]_vars

\* The request pipeline, one request after the other.
InitReq == InitReqVars /\ ConnIdle /\ AuthIdle /\ HandoffIdle /\ SetupIdle
ReqSpec == InitReq /\ [][NextReq]_vars

\* The steps of the job that onRequest posted.  The job queue runs a posted
\* job, and the job's calls (doCommand among them) return: each step that is
\* enabled is eventually taken.
JobStep ==
    \/ processSession_start
    \/ processRequest_parse
    \/ processRequest_method
    \/ processRequest_role
    \/ processRequest_usage
    \/ processRequest_empty
    \/ processRequest_params
    \/ processRequest_forbid
    \/ processRequest_exec
    \/ processRequest_shape
    \/ processRequest_metrics
    \/ processRequest_reply
    \/ processSession_finish
FairReqSpec == ReqSpec /\ WF_vars(JobStep)

\* The handoff decision, one connection after the other.
InitHandoff == InitHandoffVars /\ ConnIdle /\ AuthIdle /\ ReqIdle /\ SetupIdle
HandoffSpec == InitHandoff /\ [][NextHandoff]_vars

\* The construction of the Setup, for one Config after the other.
InitSetup ==
    InitSetupVars /\ ConnIdle /\ AuthIdle /\ ReqIdle /\ HandoffIdle
SetupSpec == InitSetup /\ [][NextSetup]_vars

(***************************************************************************)
(* Claims about the connection admission controller.                       *)
(***************************************************************************)

\* Every session is either outside a call or inside one.
InCall(s) == spc[s] \in {"a_load", "a_store", "a_ret", "c_load", "c_store"}
Quiescent == \A s \in Sessions : ~InCall(s)

\* C1: for a port with nonzero limit L, counted from a moment the port has no
\* open connection, each of the first L consecutive onAccept calls returns
\* true, the (L+1)-th returns false, and after one onClose the next onAccept
\* returns true.
C1_FirstLAcceptsSucceed ==
    \A p \in Ports :
        (limit[p] # 0 /\ last[p].made) =>
            /\ stage[p] \in 1 .. limit[p] => last[p].ret = TRUE
            /\ stage[p] = limit[p] + 1 => last[p].ret = FALSE
            /\ stage[p] = limit[p] + 3 => last[p].ret = TRUE

\* C2: onAccept adds one to the counter of the session's port, and returns
\* false exactly when the port's limit is nonzero and the incremented value
\* is at least the limit.
C2_AcceptIncrementsAndTests ==
    /\ \A s \in Sessions :
           spc[s] = "a_ret" => count[sport[s]] = before[s] + 1
    /\ \A p \in Ports :
           last[p].made =>
               /\ last[p].c = last[p].before + 1
               /\ (last[p].ret = FALSE) <=> (limit[p] # 0 /\ last[p].c >= limit[p])
               /\ limit[p] = 0 => last[p].ret = TRUE

\* C2 witness: one port has refused a connection, and an unlimited port has
\* accepted its second concurrent connection.
C2_Witness ==
    \E p, q \in Ports :
        /\ last[p].made /\ last[p].ret = FALSE
        /\ limit[q] = 0 /\ last[q].made /\ last[q].c = 2 /\ last[q].ret = TRUE

\* C3: no port's counter is ever negative, and a step changes the counter of
\* port p only when it is the store of a session whose port is p.
C3_CounterNonNegativePerPort ==
    /\ [](\A p \in Ports : count[p] >= 0)
    /\ [][\A p \in Ports :
            count'[p] # count[p] =>
                \E s \in Sessions :
                    /\ sport[s] = p
                    /\ spc[s] \in {"a_store", "c_store"}
                    /\ spc'[s] # spc[s]]_vars

\* C3 witness: two sessions accepted on the same port have both been counted
\* by that port's counter, while the other port's counter is untouched.
C3_Witness ==
    \E p, q \in Ports :
        /\ p # q
        /\ count[p] = 2 /\ count[q] = 0
        /\ \A s \in Sessions : spc[s] = "open" /\ sport[s] = p

\* C4: at most one session is between taking and releasing countlock_, and
\* whenever no call is in progress each port's counter equals the onAccept
\* calls made on it minus the onClose calls made on it.
C4_NoLostUpdate ==
    /\ Cardinality({s \in Sessions : InCall(s)}) <= 1
    /\ \A s \in Sessions : InCall(s) => countlock = s
    /\ Quiescent => \A p \in Ports : count[p] = net[p]

\* C4 witness: one session waits in front of the mutex while another is in
\* the middle of its increment on the same port, with a connection already
\* counted there.
C4_Witness ==
    \E s, u \in Sessions :
        /\ s # u
        /\ spc[s] = "a_store" /\ spc[u] = "open"
        /\ sport[s] = sport[u] /\ count[sport[s]] = 1 /\ net[sport[s]] = 2

(***************************************************************************)
(* Claims about authorized.                                                *)
(***************************************************************************)

\* What a header says, from the text it encodes: it has a colon; split at its
\* first colon, the parts are the port's user and password.
PlainHasColon(plain) == \E i \in 1 .. Len(plain) : plain[i] = 58
PlainMatches(plain, port) ==
    \E i \in 1 .. Len(plain) :
        /\ plain[i] = 58
        /\ \A j \in 1 .. i - 1 : plain[j] # 58
        /\ SubSeq(plain, 1, i - 1) = port.user
        /\ SubSeq(plain, i + 1, Len(plain)) = port.password

\* With credentials configured: true only on a matching Basic header, false
\* on a missing header, a wrong scheme or a value without a colon.
BasicAuthEnforced ==
    /\ aResult => (aHdr.present /\ aHdr.basic /\ PlainMatches(aHdr.plain, aPort))
    /\ (~aHdr.present \/ ~aHdr.basic \/ ~PlainHasColon(aHdr.plain)) => ~aResult

\* C6 as stated: authorized returns true for every request when the port has
\* no configured user/password; on every other port (one with a user or a
\* password configured) it returns true only if the request has a Basic
\* Authorization header whose decoded value, split at its first colon, is the
\* port's user and password, and false when the header is missing, the scheme
\* is wrong or the decoded value has no colon.
C6_AuthorizedAsStated ==
    aDone =>
        IF aPort.user = <<>> /\ aPort.password = <<>>
        THEN aResult
        ELSE BasicAuthEnforced

\* C6, amended: authorized returns true for every request when the port's
\* user or its password is empty; when both are non-empty it returns true
\* only on a matching Basic header, and false when the header is missing, the
\* scheme is wrong or the decoded value has no colon.
C6_AuthorizedEitherEmpty ==
    aDone =>
        IF aPort.user = <<>> \/ aPort.password = <<>>
        THEN aResult
        ELSE BasicAuthEnforced

\* C6 witness: a port with user "u" and password "p:q" has authorized the
\* request whose header decodes to "u:p:q".
C6_Witness ==
    /\ aDone /\ aResult
    /\ aPort = [user |-> <<117>>, password |-> <<112, 58, 113>>]
    /\ aHdr.present

(***************************************************************************)
(* Claims about the request pipeline.                                      *)
(***************************************************************************)

\* The trace, looked at: how often a call was made, where it was made first,
\* and the replies written.
Count(what) == Cardinality({i \in 1 .. Len(trace) : trace[i].e = what})
Pos(what) == CHOOSE i \in 1 .. Len(trace) :
                 /\ trace[i].e = what
                 /\ \A j \in 1 .. i - 1 : trace[j].e # what
IsReply(ev) == ev.e = "reply"
Replies == SelectSeq(trace, IsReply)

\* onRequest has returned; processRequest is past its parsing; it has returned.
OnRequestReturned == rpc \notin {"waiting", "onRequest"}
PastParsing == rpc \notin {"waiting", "onRequest", "closed", "queued", "parse"}
ProcessRequestReturned == rpc \in {"finish", "done"}

\* C5: when the session's port offers neither HTTP nor HTTPS, or the
\* Basic-auth check fails, onRequest writes a 403 reply and closes the
\* session, and does nothing else: no detach, no job, hence no parsing, role
\* resolution, resource admission or command execution.
C5_GatesRejectWithoutJob ==
    (/\ OnRequestReturned
     /\ \/ rq.port.protocol \cap {"http", "https"} = {}
        \/ ~authorized(rq.port, rq.auth))
    => /\ trace = <<HTTPReply(403, "Forbidden"), Did("close")>>
       /\ rpc = "closed"
       /\ ~usage.obtained /\ ~context.made

\* C5 witness: an HTTPS port with credentials has turned away a request
\* with the wrong password.
C5_Witness ==
    /\ rpc = "closed"
    /\ "https" \in rq.port.protocol
    /\ rq.auth.present /\ ~authorized(rq.port, rq.auth)

\* C7: the context handed to the executor carries empty user and
\* forwarded-for strings unless the role is Identified, whatever the headers
\* said; with the role Identified it carries the header values.
C7_IdentityOnlyWhenIdentified ==
    context.made =>
        IF context.role = "IDENTIFIED"
        THEN context.user = rq.xUser /\ context.forwardedFor = rq.xForwardedFor
        ELSE context.user = "" /\ context.forwardedFor = ""

\* C7 witness: an Administrator request with both headers set has reached
\* the executor.
C7_Witness ==
    /\ context.made /\ context.role = "ADMIN"
    /\ rq.xUser # "" /\ rq.xForwardedFor # ""

\* C8: when the consumer obtained for a request reports disconnect, the
\* request is answered 503 and nothing more is done: no executor, no metric,
\* no charge.
C8_DisconnectMeans503 ==
    (usage.obtained /\ usage.disconnect) =>
        /\ Replies = <<HTTPReply(503, "Server is overloaded")>>
        /\ ProcessRequestReturned
        /\ Count("doCommand") = 0
        /\ Count("rpc_time_.notify") = 0
        /\ Count("++rpc_requests_") = 0
        /\ Count("rpc_size_.notify") = 0
        /\ Count("usage.charge") = 0
        /\ ~context.made

\* C8 witness: a well-formed request ({"method": "ping", "params": [{..}]})
\* met a consumer that reports disconnect, and its exchange is over.
C8_Witness ==
    /\ rpc = "done"
    /\ usage.obtained /\ usage.disconnect
    /\ Get(jsonRPC, "method") = JString("ping")
    /\ Get(jsonRPC, "params") = JArray(<<SomeObject>>)

\* C9: the consumer is charged once for a request that reached the executor,
\* after the executor returned and the response was built and before the 200
\* reply is written, whatever the executor's result; it is never charged for
\* a request answered 400, 403 or 503.
C9_ChargedOncePerExecutedRequest ==
    /\ Count("usage.charge") <= 1
    /\ Count("usage.charge") = 1 =>
           /\ Count("doCommand") = 1 /\ Count("to_string") = 1
           /\ Pos("doCommand") < Pos("to_string")
           /\ Pos("to_string") < Pos("usage.charge")
    /\ \A i \in 1 .. Len(trace) :
           IsReply(trace[i]) =>
               IF trace[i].status = 200
               THEN Count("usage.charge") = 1 /\ Pos("usage.charge") < i
               ELSE trace[i].status \in {400, 403, 503} /\ Count("usage.charge") = 0
    /\ (ProcessRequestReturned /\ Count("doCommand") >= 1) =>
           /\ Count("usage.charge") = 1
           /\ Replies = <<HTTPReply200(response)>>
    /\ (rpc \in {"finish", "done", "closed"} /\ Count("doCommand") = 0) =>
           /\ Count("usage.charge") = 0
           /\ Len(Replies) = 1 /\ Replies[1].status \in {400, 403, 503}

\* C9 witness: a request whose command failed in the executor has been
\* charged and answered.
C9_Witness ==
    /\ rpc = "done"
    /\ Count("usage.charge") = 1
    /\ isObject(result) /\ isMember(result, "error")

\* C10: a body that is larger than the maximum request size, does not parse,
\* or does not parse to an object is answered 400 "Unable to parse request";
\* no role is resolved, no consumer is obtained or charged, and the executor
\* is not called.
C10_BadBodyMeans400 ==
    (/\ PastParsing
     /\ \/ rq.body.size > maxRequestSize
        \/ ~rq.body.doc.ok
        \/ ~isObject(rq.body.doc.value))
    => /\ Replies = <<HTTPReply(400, "Unable to parse request")>>
       /\ ProcessRequestReturned
       /\ ~usage.obtained
       /\ Count("requestRole") = 0
       /\ Count("newEndpoint") = 0
       /\ Count("usage.charge") = 0
       /\ Count("doCommand") = 0

\* C10 witness: a request that is well formed but one byte too large has been
\* answered.
C10_Witness ==
    /\ rpc = "done"
    /\ rq.body.size = maxRequestSize + 1
    /\ rq.body.doc.ok
    /\ Get(jsonRPC, "method") = JString("ping")
    /\ Get(jsonRPC, "params") = JNull

\* The body parsed to an object within the size limit, so that the method
\* tests are reached.
BodyParsed ==
    /\ rq.body.size <= maxRequestSize
    /\ rq.body.doc.ok
    /\ isObject(rq.body.doc.value)
PastMethod == PastParsing /\ rpc # "method"

PastParams ==
    rpc \in {"forbid", "exec", "shape", "metrics", "charge"}
        \/ (rpc \in {"finish", "done"} /\ strMethod # "" /\ usage.obtained
            /\ ~usage.disconnect)

C13_ExecutedMeans200 ==
    /\ [](/\ \A i \in 1 .. Len(trace) :
                (IsReply(trace[i]) /\ Count("doCommand") >= 1) =>
                    /\ trace[i].status = 200
                    /\ trace[i].body = [text |-> JObject("result" :> result),
                                        newline |-> TRUE]
          /\ (ProcessRequestReturned /\ Count("doCommand") >= 1) =>
                /\ Len(Replies) = 1
                /\ isMember(context.params, "command")
                /\ IF isMember(result, "error")
                   THEN /\ Get(result, "status") = JString("error")
                        /\ Get(result, "request") = context.params
                   ELSE /\ Get(result, "status") = JString("success")
                        /\ ~isMember(result, "request"))
    /\ [][rpc = "shape" =>
            /\ DOMAIN result'.m =
                   DOMAIN result.m \cup {"status"}
                       \cup (IF isMember(result, "error") THEN {"request"} ELSE {})
            /\ \A k \in DOMAIN result.m \ {"status", "request"} :
                   result'.m[k] = result.m[k]]_vars

\* C13 witness: a request whose command failed in the executor has been
\* answered 200 with the error result, and its session is over.
C13_Witness ==
    /\ rpc = "done"
    /\ Count("doCommand") = 1
    /\ Get(result, "error") = JString("unknownCmd")
    /\ Len(Replies) = 1 /\ Replies[1].status = 200
    /\ Replies[1].body.newline

\* A job was posted for the request at hand.
Submitted == Count("postCoro") = 1
Finishes == Count("complete") + Count("close")

\* C14: a request submitted as a job comes, once the job queue runs the job,
\* to one terminal state: one HTTP reply (200, 400, 403 or 503) has been
\* written, and after it the session is completed when the request asked for
\* keep-alive and closed when it did not, one of the two and never both, and
\* never before the reply; this holds for every outcome of the pipeline.
C14_OneReplyThenOneFinish ==
    /\ [](Submitted =>
            /\ Len(Replies) <= 1
            /\ Finishes <= 1
            /\ Finishes = 1 =>
                   /\ Len(Replies) = 1
                   /\ \A i \in 1 .. Len(trace) : IsReply(trace[i]) => i < Len(trace)
                   /\ trace[Len(trace)].e = IF rq.keep_alive THEN "complete" ELSE "close"
                   /\ rpc = "done"
            /\ rpc = "done" =>
                   /\ Finishes = 1
                   /\ Replies[1].status \in {200, 400, 403, 503})
    /\ (rpc = "queued") ~> (rpc = "done")

\* C14 witness: a keep-alive request answered 503 has had its session
\* completed.
C14_Witness ==
    /\ Submitted /\ rpc = "done"
    /\ rq.keep_alive
    /\ Replies = <<HTTPReply(503, "Server is overloaded")>>
    /\ Count("complete") = 1 /\ Count("close") = 0

\* C15: a request answered 403, be it for the wrong port protocol, for failed
\* Basic authorization or for a Forbidden role, has its connection closed
\* after the reply, whether or not it asked for keep-alive.
C15_ForbiddenAlwaysCloses ==
    (/\ rpc \in {"closed", "done"}
     /\ \E i \in 1 .. Len(trace) : IsReply(trace[i]) /\ trace[i].status = 403)
    => /\ Count("close") = 1
       /\ Count("complete") = 0
       /\ \A i \in 1 .. Len(trace) : IsReply(trace[i]) => i < Pos("close")

\* The WebSocket rule of the transport applies: the request is a websocket
\* upgrade, and the port offers wss (TLS) or ws (plain).
WebsocketRule(call) ==
    /\ isWebsocketUpgrade(call.request)
    /\ IF call.tls THEN "wss" \in call.protocol ELSE "ws" \in call.protocol

\* C16: when the first request is a websocket upgrade and the connection is
\* TLS on a port offering wss, or plain on a port offering ws, the handoff
\* decision returns "handed off" (the connection moved to the WebSocket
\* engine), not "retain".
C16_WebsocketUpgradeHandedOff ==
    (hs = "returned" /\ WebsocketRule(hin)) =>
        /\ hout.moved
        /\ hout # HandoffDefault

\* C17 as stated: a connection, TLS or plain, on a port offering peer, to
\* which the TLS-WebSocket rule does not apply, is delegated to the overlay
\* with the transport, the request and the remote endpoint.
C17_PeerDelegatedTlsOrPlain ==
    (/\ hs = "returned"
     /\ "peer" \in hin.protocol
     /\ ~(hin.tls /\ WebsocketRule(hin)))
    => /\ hov = OverlayCall(hin)
       /\ hout \in OverlayHandoffs

\* C17: a TLS connection on a port offering peer, to which the
\* TLS-WebSocket rule does not apply, is delegated to the overlay whatever
\* the request is, with the TLS transport, the request and the remote
\* endpoint, and the decision is the overlay's; a plain connection on such a
\* port is retained, and no plain connection is delegated to the overlay.
C17_PeerDelegatedTlsOnly ==
    /\ (/\ hs = "returned"
        /\ hin.tls
        /\ "peer" \in hin.protocol
        /\ ~WebsocketRule(hin))
       => /\ hov = OverlayCall(hin) /\ hov.bundle
          /\ hout \in OverlayHandoffs
    /\ (hs = "returned" /\ ~hin.tls /\ "peer" \in hin.protocol)
       => /\ hov = NoOverlayCall
          /\ hout = HandoffDefault
    /\ hov.called => hin.tls /\ "peer" \in hin.protocol

\* C17 witness: a TLS connection on a peer and https port whose first
\* request is an ordinary one has been handed to the overlay, which took it.
C17_Witness ==
    /\ hs = "returned"
    /\ hin.tls /\ hin.protocol = {"peer", "https"}
    /\ ~hin.request.upgrade
    /\ hov.called /\ hov.request = hin.request
    /\ hov.remote_address = hin.remote_address
    /\ hout.moved

\* The sections of the Config that are there, as parse_Ports names them.
ConfigPorts ==
    {[config.names[i].parsed EXCEPT !.name = i] :
        i \in {j \in 1 .. Len(config.names) : config.names[j].exists}}
\* Every section is there and makes a Port.
ConfigValid ==
    /\ config.server
    /\ \A i \in 1 .. Len(config.names) :
           /\ config.names[i].exists
           /\ ~to_Port(config.names[i].parsed).thrown
SetupReturned == sst = "returned" /\ ~setup.thrown
SetupThrew == sst = "returned" /\ setup.thrown
ReturnedPorts == {setup.value.ports[i] : i \in 1 .. Len(setup.value.ports)}

\* C18 as stated: the construction of the Setup fails for every Config with
\* a port whose protocols include both peer and http, and no Setup returned
\* holds such a port.
C18_PeerWithHttpFails ==
    /\ (sst = "returned"
        /\ \E q \in ConfigPorts : {"peer", "http"} \subseteq q.protocol)
       => setup.thrown
    /\ SetupReturned =>
           \A q \in ReturnedPorts : ~({"peer", "http"} \subseteq q.protocol)

\* A WebSocket protocol together with peer, http or https.
WebsocketMix(protocol) ==
    /\ protocol \cap {"ws", "wss"} # {}
    /\ protocol \cap {"peer", "http", "https"} # {}

\* C18: the construction of the Setup fails for every Config with a port
\* whose protocols include a WebSocket protocol (ws or wss) together with
\* peer, http or https, and no Setup returned holds such a port.
C18_WebsocketMixFails ==
    /\ (sst = "returned"
        /\ \E q \in ConfigPorts : WebsocketMix(q.protocol))
       => setup.thrown
    /\ SetupReturned =>
           \A q \in ReturnedPorts : ~WebsocketMix(q.protocol)

\* C18 witness: a Config whose second port mixes ws and peer, after a good
\* first one, has been refused for the combination.
C18_Witness ==
    /\ SetupThrew
    /\ config.server /\ Len(config.names) = 2
    /\ config.names[1].exists /\ ~to_Port(config.names[1].parsed).thrown
    /\ config.names[2].exists /\ config.names[2].parsed.protocol = {"ws", "peer"}
    /\ setup.log = <<"Invalid protocol combination">>

\* C19: in stand-alone mode a Setup that is returned has no port offering
\* peer and no port with an empty protocol set: peer is removed from every
\* port, a port whose only protocol was peer is dropped, every other port is
\* kept with its remaining protocols and in the order of the Config, and the
\* overlay descriptor is "no overlay" (port 0).
C19_StandaloneStripsPeer ==
    (SetupReturned /\ config.RUN_STANDALONE) =>
        LET ports == setup.value.ports
            kept == {q \in ConfigPorts : q.protocol # {"peer"}}
        IN  /\ \A q \in ReturnedPorts : "peer" \notin q.protocol /\ q.protocol # {}
            /\ Len(ports) = Cardinality(kept)
            /\ {q.name : q \in ReturnedPorts} = {q.name : q \in kept}
            /\ \A i, j \in 1 .. Len(ports) : i < j => ports[i].name < ports[j].name
            /\ \A q \in ReturnedPorts : \A o \in kept :
                   q.name = o.name =>
                       /\ q.protocol = o.protocol \ {"peer"}
                       /\ q.ip = ValueOf(o.ip) /\ q.port = ValueOf(o.port)
            /\ setup.value.overlay.port = 0
            /\ ~setup.value.overlay.filled

\* C19 witness: a stand-alone Config of a peer port, a peer and http port
\* and an https port has given a Setup of two ports.
C19_Witness ==
    /\ SetupReturned /\ config.RUN_STANDALONE
    /\ Len(config.names) = 3
    /\ config.names[1].parsed.protocol = {"peer"}
    /\ config.names[2].parsed.protocol = {"peer", "http"}
    /\ config.names[3].parsed.protocol = {"https"}
    /\ Len(setup.value.ports) = 2
    /\ setup.value.ports[1].protocol = {"http"}

\* C20: outside stand-alone mode the construction fails when two or more
\* ports offer peer, and succeeds with a warning only when none does; a Setup
\* that is returned, in either mode, has at most one port offering peer, and
\* its overlay descriptor is that port's ip and port, or port 0 when there
\* is none.
C20_AtMostOnePeerPort ==
    /\ (/\ sst = "returned" /\ ~config.RUN_STANDALONE
        /\ Cardinality({q \in ConfigPorts : "peer" \in q.protocol}) >= 2)
       => setup.thrown
    /\ (/\ sst = "returned" /\ ~config.RUN_STANDALONE /\ ConfigValid
        /\ Cardinality({q \in ConfigPorts : "peer" \in q.protocol}) >= 2)
       => setup.log = <<"Error: More than one peer protocol configured in [server]">>
    /\ (/\ sst = "returned" /\ ~config.RUN_STANDALONE /\ ConfigValid
        /\ {q \in ConfigPorts : "peer" \in q.protocol} = {})
       => /\ ~setup.thrown
          /\ setup.log = <<"Warning: No peer protocol configured">>
    /\ SetupReturned =>
        LET peers == {i \in 1 .. Len(setup.value.ports) :
                         "peer" \in setup.value.ports[i].protocol}
        IN  /\ Cardinality(peers) <= 1
            /\ \A i \in peers :
                   /\ setup.value.overlay.ip = setup.value.ports[i].ip
                   /\ setup.value.overlay.port = setup.value.ports[i].port
                   /\ setup.value.overlay.port # 0
            /\ peers = {} => setup.value.overlay.port = 0

\* C20 witness: a Config of an http port, a peer port and a peer and http
\* port, not stand-alone, has been refused for its two peer ports.
C20_Witness ==
    /\ SetupThrew /\ ~config.RUN_STANDALONE /\ ConfigValid
    /\ Len(config.names) = 3
    /\ config.names[1].parsed.protocol = {"http"}
    /\ config.names[2].parsed.protocol = {"peer"}
    /\ config.names[3].parsed.protocol = {"peer", "http"}
    /\ setup.log = <<"Error: More than one peer protocol configured in [server]">>

\* The steps of processSession and processRequest are under way or over.
InJob == rpc \in {"parse", "method", "role", "usage", "empty", "params",
                  "forbid", "exec", "shape", "metrics", "charge", "finish",
                  "done"}

\* C21: body parsing, role resolution, admission and the executor never run
\* in the I/O context.  For a request that passes the two gates onRequest
\* only detaches the session and posts one job, and returns before any step
\* of the job; every later step, the reply and complete or close included,
\* is made by the job, and from the detach to the end of the job the I/O
\* context writes nothing to the session and neither completes nor closes
\* it.
C21_PipelineRunsInJob ==
    /\ Len(by) = Len(trace)
    /\ Count("postCoro") <= 1
    /\ Submitted =>
           /\ Len(trace) >= 2
           /\ trace[1] = Did("detach") /\ by[1] = "io"
           /\ trace[2] = Did("postCoro") /\ by[2] = "io"
           /\ \A i \in 3 .. Len(trace) : by[i] = "job"
           /\ runner = "job"
    /\ rpc = "queued" => trace = <<Did("detach"), Did("postCoro")>>
    /\ InJob => Submitted /\ runner = "job"
    /\ \A i \in 1 .. Len(trace) :
           trace[i].e \in {"processSession", "requestRole", "newEndpoint",
                           "doCommand", "to_string", "usage.charge", "complete"}
               => by[i] = "job"
    /\ \A i \in 1 .. Len(trace) :
           (by[i] = "io" /\ (IsReply(trace[i]) \/ trace[i].e = "close"))
               => ~Submitted

\* C21 witness: a keep-alive request went through the executor; the I/O
\* context made the first two entries of its trace and the job the others,
\* the 200 reply and complete among them.
C21_Witness ==
    /\ rpc = "done" /\ rq.keep_alive
    /\ Count("doCommand") = 1
    /\ by[1] = "io" /\ by[2] = "io"
    /\ by[Pos("doCommand")] = "job"
    /\ by[Pos("complete")] = "job"
    /\ \E i \in 3 .. Len(trace) :
           IsReply(trace[i]) /\ trace[i].status = 200 /\ by[i] = "job"

\* C22: a request whose method is the empty string is answered 400 "method
\* is empty", and this is decided with the other method tests, before the
\* role is resolved and a consumer is obtained: whatever the consumer would
\* say, the answer is that 400 and never 503, and no consumer is obtained.
C22_EmptyMethodBeforeAdmission ==
    (BodyParsed /\ PastMethod /\ Get(jsonRPC, "method") = JString("")) =>
        /\ Count("requestRole") = 0
        /\ Count("newEndpoint") = 0
        /\ ~usage.obtained
        /\ \A i \in 1 .. Len(trace) : IsReply(trace[i]) => trace[i].status # 503
        /\ ProcessRequestReturned =>
               Replies = <<HTTPReply(400, "method is empty")>>

\* A character in lower case, and equality of two strings but for case.
tolower(ch) == IF ch >= 65 /\ ch <= 90 THEN ch + 32 ELSE ch
ci_equal(a, b) ==
    /\ Len(a) = Len(b)
    /\ \A i \in 1 .. Len(a) : tolower(a[i]) = tolower(b[i])

\* C23: isWebsocketUpgrade is true exactly when the request declares an
\* upgrade and its Upgrade header equals "websocket" but for case
\* ("WebSocket" and "WEBSOCKET" too); it is false for every request that
\* declares no upgrade, whatever its Upgrade header.
C23_UpgradeCaseInsensitive ==
    hs # "idle" =>
        /\ isWebsocketUpgrade(hin.request)
               <=> (hin.request.upgrade /\ ci_equal(hin.request.Upgrade, websocket))
        /\ ~hin.request.upgrade => ~isWebsocketUpgrade(hin.request)

OkReplies == Cardinality({i \in 1 .. Len(trace) :
                             IsReply(trace[i]) /\ trace[i].status = 200})

====
